---- MODULE Spec2Model ----
(***************************************************************************)
(* A model of thruster's extraction and resolution pipeline                *)
(* (src/src/process.rs): Route parsing, rendering and validation, the      *)
(* NativeType resolver and renderer, Entrypoint::build,                    *)
(* extract_entrypoints and build_template_args, and of the two generators  *)
(* of src/src/lib.rs that emit the entrypoints.                            *)
(*                                                                         *)
(* Text is modelled as a sequence of one-character strings, so that        *)
(* splitting, brace checks, the placeholder regex and the snake_case       *)
(* normalisation are computed rather than assumed.                         *)
(***************************************************************************)
EXTENDS Integers, Sequences, FiniteSets, TLC

VARIABLES
    pc,           \* position of the run
    route,        \* the route string given to Route::from_str
    segments,     \* the Result<Route> of Route::from_str, None before the call
    text,         \* the text of Route::render, None before the call
    method,       \* the Method given to Entrypoint::build
    operation,    \* the Operation given to Entrypoint::build
    components,   \* the Components given to Entrypoint::build
    args,         \* the Vec<Arg> given to Entrypoint::new
    responses,    \* the Vec<Response> given to Entrypoint::new
    operation_id, \* the OperationId given to Entrypoint::new
    entrypoint,   \* the Result<Entrypoint>, None before the call
    schema,       \* the Schema given to NativeType::from_json_schema
    required,     \* the flag given to NativeType::from_json_schema
    native,       \* the Result<NativeType>, None before the call
    rendered,     \* the (String, u32) of NativeType::render, None before the call
    api,          \* the OpenApi given to extract_entrypoints
    cursor,       \* how many operations the loops of extract_entrypoints have taken
    out,          \* the Vec<Entrypoint> of extract_entrypoints
    stderr,       \* the errors extract_entrypoints has written
    anon_count0,  \* the counter given to NativeType::render
    tmpl_args,    \* the values build_template_args has returned, in call order
    target,       \* the generator that runs: "gen" or "stub"
    routes,       \* the Vec<OperationId> of generate_server_endpoints
    writer        \* what the generator has written, in order

routeVars == <<route, segments, text>>
buildVars == <<method, operation, components, args, responses, operation_id, entrypoint>>
schemaVars == <<schema, required, native, rendered>>
extractVars == <<api, cursor, out, stderr>>
projectVars == <<anon_count0, tmpl_args, target, routes, writer>>
vars == <<pc, routeVars, buildVars, schemaVars, extractVars, projectVars>>

----------------------------------------------------------------------------
(* Bounds of the model *)

MaxRouteLen == 6
MaxSegs == 2
MaxArgs == 2
MaxRefLen == 2
MaxTypes == 2
MaxItems == 2
MaxParams == 2
MaxResponses == 2
MaxPaths == 2

----------------------------------------------------------------------------
(* Generic helpers *)

None == [some |-> FALSE]
Some(v) == [some |-> TRUE, val |-> v]

Ok(v) == [ok |-> TRUE, val |-> v]
Err(e) == [ok |-> FALSE, err |-> e]

SeqUpTo(S, n) == UNION {[1..k -> S] : k \in 0..n}

Range(s) == {s[i] : i \in 1..Len(s)}

Contains(s, c) == \E i \in 1..Len(s) : s[i] = c

RECURSIVE Concat(_)
Concat(ss) == IF ss = <<>> THEN <<>> ELSE Head(ss) \o Concat(Tail(ss))

----------------------------------------------------------------------------
(* Characters *)

LF == "\n"
\* the letters of the names of the model and of "getSwagger"
Lower == {"a", "b", "e", "g", "r", "s", "t", "w"}
Upper == {"A", "B", "E", "G", "R", "S", "T", "W"}
IsLowercase(c) == c \in Lower
IsUppercase(c) == c \in Upper
Digits == <<"0", "1", "2", "3", "4", "5", "6", "7", "8", "9">>
IsNumeric(c) == c \in Range(Digits)
IsAlphanumeric(c) == c \in Lower \cup Upper \cup Range(Digits)
ToLowercase(c) ==
    CASE c = "A" -> "a" [] c = "B" -> "b" [] c = "E" -> "e" [] c = "G" -> "g"
      [] c = "R" -> "r" [] c = "S" -> "s" [] c = "T" -> "t" [] c = "W" -> "w"
      [] OTHER -> c
ToUppercase(c) ==
    CASE c = "a" -> "A" [] c = "b" -> "B" [] c = "e" -> "E" [] c = "g" -> "G"
      [] c = "r" -> "R" [] c = "s" -> "S" [] c = "t" -> "T" [] c = "w" -> "W"
      [] OTHER -> c

RouteChars == {"/", "{", "}", "a", "B", "_", LF}

----------------------------------------------------------------------------
(* to_snake_case, as the Inflector crate computes it: trailing             *)
(* non-alphanumerics are trimmed, every run of non-alphanumerics inside    *)
(* becomes one "_" (none at the start), and an upper-case letter that is   *)
(* not first in its word and has a lower-case neighbour starts a new word. *)

RECURSIVE TrimRight(_)
TrimRight(s) ==
    IF s = <<>> \/ IsAlphanumeric(s[Len(s)]) THEN s
    ELSE TrimRight(SubSeq(s, 1, Len(s) - 1))

CharAt(s, i) == IF i >= 1 /\ i <= Len(s) THEN s[i] ELSE "A"

RequiresSeparator(s, i, first) ==
    /\ ~first
    /\ IsUppercase(s[i])
    /\ (IsLowercase(CharAt(s, i + 1)) \/ IsLowercase(CharAt(s, i - 1)))

RECURSIVE SnakeFrom(_, _, _, _, _)
SnakeFrom(s, n, i, first, acc) ==
    IF i > n THEN acc
    ELSE IF ~IsAlphanumeric(s[i])
         THEN IF ~first THEN SnakeFrom(s, n, i + 1, TRUE, Append(acc, "_"))
                        ELSE SnakeFrom(s, n, i + 1, first, acc)
    ELSE IF RequiresSeparator(s, i, first)
         THEN SnakeFrom(s, n, i + 1, FALSE, acc \o <<"_", ToLowercase(s[i])>>)
    ELSE SnakeFrom(s, n, i + 1, FALSE, Append(acc, ToLowercase(s[i])))

to_snake_case(s) == SnakeFrom(s, Len(TrimRight(s)), 1, TRUE, <<>>)

----------------------------------------------------------------------------
(* Route *)

\* str::split("/"): k separators give k + 1 pieces, empty ones included
RECURSIVE SplitFrom(_, _, _, _)
SplitFrom(s, sep, i, cur) ==
    IF i > Len(s) THEN <<cur>>
    ELSE IF s[i] = sep THEN <<cur>> \o SplitFrom(s, sep, i + 1, <<>>)
    ELSE SplitFrom(s, sep, i + 1, Append(cur, s[i]))

Split(s, sep) == SplitFrom(s, sep, 1, <<>>)

RECURSIVE Join(_, _)
Join(ss, sep) ==
    IF ss = <<>> THEN <<>>
    ELSE IF Len(ss) = 1 THEN ss[1]
    ELSE ss[1] \o <<sep>> \o Join(Tail(ss), sep)

\* a brace check that forgets the closing brace
is_valid_open_only(section) == ~Contains(section, "{")

is_valid(section) == ~(Contains(section, "{") \/ Contains(section, "}"))

\* Regex ^\{(.+)\}$ : "." matches every character but the line feed
re_route_arg(segment) ==
    IF /\ Len(segment) >= 3
       /\ segment[1] = "{"
       /\ segment[Len(segment)] = "}"
       /\ \A i \in 2..(Len(segment) - 1) : segment[i] # LF
    THEN Some(SubSeq(segment, 2, Len(segment) - 1))
    ELSE None

PathSeg(s) == [kind |-> "Path", s |-> s]
RouteArg(s) == [kind |-> "RouteArg", s |-> s]

ParseSegment(segment) ==
    LET c == re_route_arg(segment) IN
    IF c.some
    THEN IF is_valid(c.val) THEN Ok(RouteArg(c.val))
                            ELSE Err(<<"Invalid segment", c.val>>)
    ELSE IF is_valid(segment) THEN Ok(PathSeg(segment))
                              ELSE Err(<<"Invalid segment", segment>>)

\* collect::<Result<Vec<_>>>: the first Err, else all the values in order
CollectResults(rs) ==
    IF \E i \in 1..Len(rs) : ~rs[i].ok
    THEN rs[CHOOSE i \in 1..Len(rs) :
                /\ ~rs[i].ok
                /\ \A j \in 1..(i - 1) : rs[j].ok]
    ELSE Ok([i \in 1..Len(rs) |-> rs[i].val])

Route_from_str(r) ==
    LET pieces == Split(r, "/") IN
    CollectResults([i \in 1..Len(pieces) |-> ParseSegment(pieces[i])])

\* a rendering that forgets to normalise the parameter name
RenderSegment_raw(section) ==
    IF section.kind = "Path" THEN section.s
    ELSE <<"<">> \o section.s \o <<">">>

RenderSegment(section) ==
    IF section.kind = "Path" THEN section.s
    ELSE <<"<">> \o to_snake_case(section.s) \o <<">">>

Route_render(segs) ==
    Join([i \in 1..Len(segs) |-> RenderSegment(segs[i])], "/")

RECURSIVE FilterMapArgs(_)
FilterMapArgs(segs) ==
    IF segs = <<>> THEN <<>>
    ELSE IF Head(segs).kind = "RouteArg"
         THEN <<to_snake_case(Head(segs).s)>> \o FilterMapArgs(Tail(segs))
    ELSE FilterMapArgs(Tail(segs))

route_args(segs) == FilterMapArgs(segs)

----------------------------------------------------------------------------
(* Route specification: parse a route string, then render it *)

\* the variables of Entrypoint::build, where no entrypoint is being built
BuildIdle ==
    /\ method = "get"
    /\ operation = None
    /\ components = None
    /\ args = <<>>
    /\ responses = <<>>
    /\ operation_id = None
    /\ entrypoint = None

\* the variables of the resolver and of the extraction, where no schema is
\* being resolved and no spec extracted
SchemaIdle ==
    /\ schema = None
    /\ required = TRUE
    /\ native = None
    /\ rendered = None
    /\ api = None
    /\ cursor = 0
    /\ out = <<>>
    /\ stderr = <<>>

\* the variables of the projection and of the generators, where nothing is
\* projected or generated
ProjectIdle ==
    /\ anon_count0 = 1
    /\ tmpl_args = <<>>
    /\ target = "gen"
    /\ routes = <<>>
    /\ writer = <<>>

InitRoute ==
    /\ pc = "start"
    /\ route \in SeqUpTo(RouteChars, MaxRouteLen)
    /\ segments = None
    /\ text = None
    /\ BuildIdle
    /\ SchemaIdle
    /\ ProjectIdle

ParseRoute ==
    /\ pc = "start"
    /\ segments' = Some(Route_from_str(route))
    /\ pc' = IF segments'.val.ok THEN "parsed" ELSE "malformed"
    /\ UNCHANGED <<projectVars, route, text, buildVars, schemaVars, extractVars>>

RenderRoute ==
    /\ pc = "parsed"
    /\ text' = Some(Route_render(segments.val.val))
    /\ pc' = "rendered"
    /\ UNCHANGED <<projectVars, route, segments, buildVars, schemaVars, extractVars>>

NextRoute == ParseRoute \/ RenderRoute

SpecRoute == InitRoute /\ [][NextRoute]_vars

----------------------------------------------------------------------------
(* Claims about Route::from_str and Route::render (SpecRoute) *)

HasBrace(seg) == Contains(seg, "{") \/ Contains(seg, "}")

\* "{name}" with a non-empty name that holds no brace
WellFormedPlaceholder(seg) ==
    /\ Len(seg) >= 3
    /\ seg[1] = "{"
    /\ seg[Len(seg)] = "}"
    /\ \A i \in 2..(Len(seg) - 1) : seg[i] \notin {"{", "}"}

PlaceholderName(seg) == SubSeq(seg, 2, Len(seg) - 1)

WellFormedRoute(r) ==
    \A seg \in Range(Split(r, "/")) : ~HasBrace(seg) \/ WellFormedPlaceholder(seg)

\* as WellFormedRoute, the placeholder names holding no line feed either
WellFormedRouteNoLF(r) ==
    \A seg \in Range(Split(r, "/")) :
        \/ ~HasBrace(seg)
        \/ WellFormedPlaceholder(seg) /\ ~Contains(PlaceholderName(seg), LF)

Parsed == pc \in {"parsed", "malformed", "rendered"}

\* C5 as stated: Route::from_str succeeds exactly on the routes whose segments
\* are each brace-free or a well-formed placeholder {name}, and fails on all others.
C5_Original == Parsed => (segments.val.ok <=> WellFormedRoute(route))

\* C5 amended: Route::from_str succeeds exactly on the routes whose segments are
\* each brace-free or a placeholder {name} whose name is non-empty and holds
\* neither a brace nor a line feed; it fails on every other route.
C5_FromStrAcceptsExactlyWellFormed ==
    Parsed => (segments.val.ok <=> WellFormedRouteNoLF(route))

\* a route with a partial placeholder, as x{bogus} of the tests, was rejected
C5_Witness ==
    /\ pc = "malformed"
    /\ \E seg \in Range(Split(route, "/")) :
          /\ Len(seg) = 4 /\ seg[1] = "a" /\ seg[2] = "{" /\ seg[4] = "}"
          /\ seg[3] \notin {"{", "}"}

\* what the rendering of segment seg of the route string is expected to be,
\* norm being what is done to a placeholder's name
ExpectedSegment(seg, norm(_)) ==
    IF HasBrace(seg) THEN <<"<">> \o norm(PlaceholderName(seg)) \o <<">">>
    ELSE seg

RoundTrips(norm(_)) ==
    LET before == Split(route, "/")
        after == Split(text.val, "/")
    IN  /\ Len(after) = Len(before)
        /\ \A i \in 1..Len(before) : after[i] = ExpectedSegment(before[i], norm)

Identity(s) == s

\* C6 as stated: the rendering of a parsed route made of literal segments and
\* well-formed placeholders keeps the segments, each literal verbatim and each
\* {name} as the target placeholder <name> carrying that same name.
C6_Original ==
    (pc = "rendered" /\ WellFormedRoute(route)) => RoundTrips(Identity)

\* C6 amended: every route made of literal segments and well-formed placeholders
\* whose names hold no line feed parses, and its rendering has the same number of
\* "/"-delimited segments in the same order, each literal verbatim and each
\* {name} as <n> where n is the snake_case form of name.
C6_ParseRenderRoundTrip ==
    (Parsed /\ pc # "parsed" /\ WellFormedRouteNoLF(route))
        => (pc = "rendered" /\ RoundTrips(to_snake_case))

\* a rendered route with an empty leading segment, a literal and a placeholder
\* whose name the normalisation changes
C6_Witness ==
    /\ pc = "rendered"
    /\ route = <<"/", "a", "/", "{", "B", "}">>
    /\ text.val = <<"/", "a", "/", "<", "b", ">">>

----------------------------------------------------------------------------
(* Entrypoint::new and validate_route_args *)

Locations == {"path", "query", "header", "cookie"}
Methods == <<"get", "post", "put", "patch", "delete">>

\* the byte of a character, which orders strings
CharCode(c) ==
    CASE c = LF -> 10 [] c = "/" -> 47 [] c = "<" -> 60 [] c = ">" -> 62
      [] c = "A" -> 65 [] c = "B" -> 66 [] c = "P" -> 80 [] c = "_" -> 95
      [] c = "a" -> 97 [] c = "b" -> 98 [] c = "{" -> 123 [] c = "}" -> 125

\* Ord for str: lexicographic by bytes
RECURSIVE StrLeq(_, _)
StrLeq(s, t) ==
    IF s = <<>> THEN TRUE
    ELSE IF t = <<>> THEN FALSE
    ELSE IF s[1] = t[1] THEN StrLeq(Tail(s), Tail(t))
    ELSE CharCode(s[1]) < CharCode(t[1])

RECURSIVE Insert(_, _)
Insert(sorted, x) ==
    IF sorted = <<>> THEN <<x>>
    ELSE IF StrLeq(x, Head(sorted)) THEN <<x>> \o sorted
    ELSE <<Head(sorted)>> \o Insert(Tail(sorted), x)

RECURSIVE Sort(_)
Sort(v) == IF v = <<>> THEN <<>> ELSE Insert(Sort(Tail(v)), Head(v))

Arg_new(name, type_, location) ==
    [name |-> to_snake_case(name), type_ |-> type_, location |-> location]

RECURSIVE path_args(_)
path_args(as) ==
    IF as = <<>> THEN <<>>
    ELSE IF Head(as).location = "path"
         THEN <<Head(as).name>> \o path_args(Tail(as))
    ELSE path_args(Tail(as))

\* a validation that only asks every route parameter to be a path argument
validate_route_args_subset(r, as) ==
    IF Range(route_args(r)) \subseteq Range(path_args(as))
    THEN Ok("unit")
    ELSE Err(<<"Path args mismatch", Sort(route_args(r)), Sort(path_args(as))>>)

\* a validation that forgets to sort the two lists
validate_route_args_unsorted(r, as) ==
    IF route_args(r) = path_args(as)
    THEN Ok("unit")
    ELSE Err(<<"Path args mismatch", route_args(r), path_args(as)>>)

validate_route_args(r, as) ==
    LET ra == Sort(route_args(r))
        pa == Sort(path_args(as))
    IN  IF ~(ra = pa) THEN Err(<<"Path args mismatch", ra, pa>>)
        ELSE Ok("unit")

Entrypoint_new(r, m, as, rs, id, summary, description) ==
    LET v == validate_route_args(r, as) IN
    IF ~v.ok THEN v
    ELSE Ok([route |-> r, method |-> m, args |-> as, responses |-> rs,
             operation_id |-> id, summary |-> summary,
             description |-> description])

OperationId_new(s) == to_snake_case(s)

T_String == [kind |-> "String"]

Response_new(status_code, return_type, content_type) ==
    [status_code |-> status_code, return_type |-> return_type,
     content_type |-> content_type]

----------------------------------------------------------------------------
(* Specification of Entrypoint::new: a route and a list of arguments, as   *)
(* the test make_entrypoint gives them                                     *)

RawNames == {<<"a">>, <<"a", "B">>, <<"a", "_", "b">>}

SegmentPool == {<<"a">>} \cup {<<"{">> \o n \o <<"}">> : n \in RawNames}

RoutesOfSegments(n) ==
    {<<"/">> \o Join(ss, "/") : ss \in SeqUpTo(SegmentPool, n)}

ArgPool == {Arg_new(n, T_String, l) : n \in RawNames, l \in Locations}

InitNew ==
    /\ pc = "start"
    /\ route \in RoutesOfSegments(MaxSegs)
    /\ segments = None
    /\ text = None
    /\ method = "post"
    /\ operation = None
    /\ components = None
    /\ args \in SeqUpTo(ArgPool, MaxArgs)
    /\ responses = <<Response_new(<<"2", "0", "0">>, None, None)>>
    /\ operation_id = Some(OperationId_new(<<"a", "B">>))
    /\ entrypoint = None
    /\ SchemaIdle
    /\ ProjectIdle

\* operation.summary.clone() and operation.description.clone()
operation_summary == IF operation.some THEN operation.val.summary ELSE None
operation_description == IF operation.some THEN operation.val.description ELSE None

EntrypointNew ==
    /\ pc = "parsed"
    /\ entrypoint' = Some(Entrypoint_new(segments.val.val, method, args, responses,
                                         operation_id.val, operation_summary,
                                         operation_description))
    /\ pc' = IF entrypoint'.val.ok THEN "built" ELSE "rejected"
    /\ UNCHANGED <<projectVars, routeVars, method, operation, components, args, responses,
                   operation_id, schemaVars, extractVars>>

NextNew == ParseRoute \/ EntrypointNew

SpecNew == InitNew /\ [][NextNew]_vars

----------------------------------------------------------------------------
(* Claims about path-argument validation (SpecNew) *)

\* the parameter names of the parsed route, as Route::route_args gives them
RouteParamNames ==
    {to_snake_case(seg.s) :
        seg \in {x \in Range(segments.val.val) : x.kind = "RouteArg"}}

\* the names of the arguments located in path
PathArgNames == {a.name : a \in {x \in Range(args) : x.location = "path"}}

Count(v, x) == Cardinality({i \in 1..Len(v) : v[i] = x})

\* every name occurs as often among the route's parameters as among the
\* path-located arguments
SameOccurrences ==
    LET ra == [i \in 1..Len(segments.val.val) |->
                 IF segments.val.val[i].kind = "RouteArg"
                 THEN Some(to_snake_case(segments.val.val[i].s)) ELSE None]
        pa == [i \in 1..Len(args) |->
                 IF args[i].location = "path" THEN Some(args[i].name) ELSE None]
    IN  \A n \in RouteParamNames \cup PathArgNames :
            Count(ra, Some(n)) = Count(pa, Some(n))

Constructed == pc \in {"built", "rejected"}

\* C1: every constructed Entrypoint has the set of its route's parameter names
\* equal to the set of names of its path-located arguments; when the two sets
\* differ, construction fails with the path-argument-mismatch error and no
\* Entrypoint is produced.
C1_ConstructedHasMatchingPathArgs ==
    Constructed =>
        /\ entrypoint.val.ok =>
              /\ pc = "built"
              /\ Range(route_args(entrypoint.val.val.route))
                   = {a.name : a \in {x \in Range(entrypoint.val.val.args) :
                                          x.location = "path"}}
        /\ RouteParamNames # PathArgNames =>
              /\ pc = "rejected"
              /\ ~entrypoint.val.ok
              /\ entrypoint.val.err[1] = "Path args mismatch"

\* an entrypoint was built from the route parameter aB, a path argument a_b
\* and a query argument
C1_Witness ==
    /\ pc = "built"
    /\ \E seg \in Range(segments.val.val) :
          seg.kind = "RouteArg" /\ seg.s = <<"a", "B">>
    /\ entrypoint.val.val.args[1].location = "query"
    /\ PathArgNames = {<<"a", "_", "b">>}

\* C2 as stated: when the set of route parameter names equals the set of
\* path-argument names, validation succeeds, however often a name occurs.
C2_Original == (Constructed /\ RouteParamNames = PathArgNames) => pc = "built"

\* C2 amended: when every name occurs as often among the route's parameters as
\* among the path-located arguments, validation succeeds and the Entrypoint is
\* constructed, whatever the order of declaration and whatever arguments are
\* located in query, header or cookie.
C2_SameOccurrencesSucceeds == (Constructed /\ SameOccurrences) => pc = "built"

\* built from two parameters declared in the opposite order of the arguments
C2_Witness ==
    /\ pc = "built"
    /\ Len(route_args(segments.val.val)) = 2
    /\ route_args(segments.val.val)[1] # route_args(segments.val.val)[2]
    /\ route_args(segments.val.val)[1] = path_args(args)[2]

----------------------------------------------------------------------------
(* NativeType *)

SimpleTypes == {"array", "boolean", "integer", "null", "number", "object", "string"}

T_I32 == [kind |-> "I32"]
T_I64 == [kind |-> "I64"]
T_F32 == [kind |-> "F32"]
T_F64 == [kind |-> "F64"]
T_Bool == [kind |-> "Bool"]
Named(s) == [kind |-> "Named", s |-> s]
Array(natives) == [kind |-> "Array", natives |-> natives]
Option(inner) == [kind |-> "Option", inner |-> inner]
Anonymous(sch) == [kind |-> "Anonymous", schema |-> sch]

\* str::rfind: the position of the last occurrence, 0 for none
RFind(s, c) ==
    IF Contains(s, c)
    THEN CHOOSE i \in 1..Len(s) : s[i] = c /\ \A j \in (i + 1)..Len(s) : s[j] # c
    ELSE 0

\* a dispatch that takes integer for a 32-bit integer
FromSimpleType_i32(t, sch) ==
    CASE t = "object" -> Ok(Anonymous(sch))
      [] t = "boolean" -> Ok(T_Bool)
      [] t = "integer" -> Ok(T_I32)
      [] t = "null" -> Err(<<"Null is not valid as per spec">>)
      [] t = "number" -> Ok(T_F64)
      [] t = "string" -> Ok(T_String)

\* the match on a single primitive type other than array
FromSimpleType(t, sch) ==
    CASE t = "object" -> Ok(Anonymous(sch))
      [] t = "boolean" -> Ok(T_Bool)
      [] t = "integer" -> Ok(T_I64)
      [] t = "null" -> Err(<<"Null is not valid as per spec">>)
      [] t = "number" -> Ok(T_F64)
      [] t = "string" -> Ok(T_String)

\* a reference resolution that keeps the text after the first "/"
FromRef_first(ref) ==
    IF ~Contains(ref, "/")
    THEN Err(<<"Reference is not valid path", ref>>)
    ELSE LET loc == CHOOSE i \in 1..Len(ref) :
                        ref[i] = "/" /\ \A j \in 1..(i - 1) : ref[j] # "/"
         IN  Ok(Named(SubSeq(ref, loc + 1, Len(ref))))

\* the match on ref_.rfind("/")
FromRef(ref) ==
    LET loc == RFind(ref, "/") IN
    IF loc = 0 THEN Err(<<"Reference is not valid path", ref>>)
    ELSE Ok(Named(SubSeq(ref, loc + 1, Len(ref))))

\* a collection of the elements that drops all but the first
ArrayOf_first(results) ==
    LET all == CollectResults(results) IN
    IF ~all.ok THEN all ELSE Ok(Array(<<all.val[1]>>))

\* collect::<Result<Vec<_>>>()? and NativeType::Array(natives)
ArrayOf(results) ==
    LET all == CollectResults(results) IN
    IF ~all.ok THEN all ELSE Ok(Array(all.val))

\* the end of from_json_schema: Option around the type when not required
WrapOptional(res, req) ==
    IF ~res.ok THEN res
    ELSE IF ~req THEN Ok(Option(res.val))
    ELSE res

RECURSIVE from_json_schema(_, _)
from_json_schema(sch, req) ==
    LET res ==
          IF sch.ref_.some THEN FromRef(sch.ref_.val)
          ELSE IF Len(sch.type_) = 0 THEN Ok(Anonymous(sch))
          ELSE IF Len(sch.type_) = 1
               THEN IF sch.type_[1] = "array"
                    THEN IF Len(sch.items) = 0
                         THEN Err(<<"Items missing for array schema">>)
                         ELSE ArrayOf([i \in 1..Len(sch.items) |->
                                          from_json_schema(sch.items[i], req)])
                    ELSE FromSimpleType(sch.type_[1], sch)
          ELSE Err(<<"Schema type is array of len", Len(sch.type_)>>)
    IN  WrapOptional(res, req)

----------------------------------------------------------------------------
(* NativeType::render *)

\* to_class_case, as the Inflector crate computes it: the words are joined,
\* each with its first letter in upper case and the rest in lower case. The
\* singular form it takes of the last word is that word itself for every word
\* over the letters of the model.
RECURSIVE CamelFrom(_, _, _, _, _, _, _)
CamelFrom(s, n, i, new_word, last_char, found, acc) ==
    IF i > n THEN acc
    ELSE IF ~IsAlphanumeric(s[i]) /\ found
         THEN CamelFrom(s, n, i + 1, TRUE, last_char, found, acc)
    ELSE IF ~found /\ ~IsAlphanumeric(s[i])
         THEN CamelFrom(s, n, i + 1, new_word, last_char, found, acc)
    ELSE IF IsNumeric(s[i])
         THEN CamelFrom(s, n, i + 1, TRUE, last_char, TRUE, Append(acc, s[i]))
    ELSE IF new_word \/ (IsLowercase(last_char) /\ IsUppercase(s[i]) /\ last_char # " ")
         THEN CamelFrom(s, n, i + 1, FALSE, last_char, TRUE,
                        Append(acc, ToUppercase(s[i])))
    ELSE CamelFrom(s, n, i + 1, new_word, s[i], TRUE, Append(acc, ToLowercase(s[i])))

to_class_case(s) == CamelFrom(s, Len(TrimRight(s)), 1, TRUE, " ", FALSE, <<>>)

classcase(id) == to_class_case(id)

\* the decimal text of a number, as format!("{}") writes it
RECURSIVE Decimal(_)
Decimal(n) ==
    IF n < 10 THEN <<Digits[n + 1]>>
    ELSE Decimal(n \div 10) \o <<Digits[(n % 10) + 1]>>

Panic == [panic |-> TRUE]
Rendered(res, anon_count) == [panic |-> FALSE, text |-> res, count |-> anon_count]

RECURSIVE render(_, _, _)
render(t, anon_count, id) ==
    CASE t.kind = "I32" -> Rendered(<<"i", "3", "2">>, anon_count)
      [] t.kind = "I64" -> Rendered(<<"i", "6", "4">>, anon_count)
      [] t.kind = "F32" -> Rendered(<<"f", "3", "2">>, anon_count)
      [] t.kind = "F64" -> Rendered(<<"f", "6", "4">>, anon_count)
      [] t.kind = "Bool" -> Rendered(<<"b", "o", "o", "l">>, anon_count)
      [] t.kind = "String" -> Rendered(<<"S", "t", "r", "i", "n", "g">>, anon_count)
      [] t.kind = "Named" -> Rendered(t.s, anon_count)
      [] t.kind = "Array" ->
            \* natives.first().unwrap() panics on an empty Vec
            IF t.natives = <<>> THEN Panic
            ELSE LET rendered_type == render(t.natives[1], anon_count, id) IN
                 IF rendered_type.panic THEN Panic
                 ELSE Rendered(<<"V", "e", "c", "<">> \o rendered_type.text \o <<">">>,
                               rendered_type.count)
      [] t.kind = "Option" ->
            LET rendered_type == render(t.inner, anon_count, id) IN
            IF rendered_type.panic THEN Panic
            ELSE Rendered(<<"O", "p", "t", "i", "o", "n", "<">>
                              \o rendered_type.text \o <<">">>,
                          rendered_type.count)
      [] t.kind = "Anonymous" ->
            Rendered(classcase(id) \o <<"A", "n", "o", "n", "A", "r", "g">>
                         \o Decimal(anon_count),
                     anon_count + 1)

----------------------------------------------------------------------------
(* Specification of the resolver: a schema node and the required flag are  *)
(* resolved, and the type that results is rendered                         *)

Schema(ref, types, items, title) ==
    [ref_ |-> ref, type_ |-> types, items |-> items, title |-> title]

RefStrings == SeqUpTo({"/", "P"}, MaxRefLen)
Refs == {None} \cup {Some(r) : r \in RefStrings}
TypeLists == SeqUpTo(SimpleTypes, MaxTypes)
Titles == {"t0", "t1"}

\* nodes with no items but one: every reference and list of primitive types
DispatchNodes ==
    {Schema(r, ts, is, t) :
        r \in Refs, ts \in TypeLists,
        is \in {<<>>, <<Schema(None, <<"integer">>, <<>>, "t0")>>},
        t \in Titles}

\* the nodes found inside arrays
InnerLeaves ==
    {Schema(None, <<"integer">>, <<>>, "t0"),
     Schema(None, <<"null">>, <<>>, "t0"),
     Schema(None, <<>>, <<>>, "t1")}

ItemLeaves ==
    InnerLeaves \cup
    {Schema(None, <<"string">>, <<>>, "t0"),
     Schema(Some(<<"/", "P">>), <<>>, <<>>, "t0"),
     Schema(Some(<<"P">>), <<>>, <<>>, "t0")}

InnerArrays ==
    {Schema(None, <<"array">>, is, "t0") : is \in SeqUpTo(InnerLeaves, 1)}

ArrayNodes ==
    {Schema(None, <<"array">>, is, "t0") :
        is \in SeqUpTo(ItemLeaves \cup InnerArrays, MaxItems)}

SchemaInputs == DispatchNodes \cup ArrayNodes

InitSchema ==
    /\ pc = "schema"
    /\ schema \in SchemaInputs
    /\ required \in BOOLEAN
    /\ native = None
    /\ rendered = None
    /\ api = None
    /\ cursor = 0
    /\ out = <<>>
    /\ stderr = <<>>
    /\ route = <<>>
    /\ segments = None
    /\ text = None
    /\ method = "get"
    /\ operation = None
    /\ components = None
    /\ args = <<>>
    /\ responses = <<>>
    /\ operation_id \in {Some(OperationId_new(n)) : n \in RawNames}
    /\ entrypoint = None
    /\ ProjectIdle

Resolve ==
    /\ pc = "schema"
    /\ native' = Some(from_json_schema(schema, required))
    /\ pc' = IF native'.val.ok THEN "resolved" ELSE "unresolved"
    /\ UNCHANGED <<projectVars, routeVars, buildVars, extractVars, schema, required, rendered>>

RenderNative ==
    /\ pc = "resolved"
    /\ rendered' = Some(render(native.val.val, 1, operation_id.val))
    /\ pc' = IF rendered'.val.panic THEN "panicked" ELSE "typed"
    /\ UNCHANGED <<projectVars, routeVars, buildVars, extractVars, schema, required, native>>

NextSchema == Resolve \/ RenderNative

SpecSchema == InitSchema /\ [][NextSchema]_vars

----------------------------------------------------------------------------
(* Claims about NativeType::from_json_schema (SpecSchema) *)

Resolved == pc \in {"resolved", "unresolved", "typed", "panicked"}

IsRef == schema.ref_.some

\* C7: for a node that is not a reference and required = true, the declared
\* primitive-type list decides the result: an empty list gives Anonymous of the
\* node itself; one entry gives object -> Anonymous of the node itself,
\* boolean -> Bool, integer -> I64, number -> F64, string -> String and
\* null -> failure; more than one entry gives failure.
C7_DispatchOnTypeList ==
    (Resolved /\ ~IsRef /\ required) =>
        LET ts == schema.type_
            res == native.val
        IN  /\ Len(ts) = 0 => res = Ok([kind |-> "Anonymous", schema |-> schema])
            /\ Len(ts) > 1 => ~res.ok
            /\ Len(ts) = 1 =>
                 /\ ts[1] = "object" =>
                        res = Ok([kind |-> "Anonymous", schema |-> schema])
                 /\ ts[1] = "boolean" => res = Ok([kind |-> "Bool"])
                 /\ ts[1] = "integer" => res = Ok([kind |-> "I64"])
                 /\ ts[1] = "number" => res = Ok([kind |-> "F64"])
                 /\ ts[1] = "string" => res = Ok([kind |-> "String"])
                 /\ ts[1] = "null" => ~res.ok

\* {"type": "integer"} with required = true was resolved to I64
C7_Witness ==
    /\ pc = "resolved"
    /\ ~IsRef /\ required
    /\ schema.type_ = <<"integer">>
    /\ native.val.val.kind = "I64"

RECURSIVE HasOption(_)
HasOption(t) ==
    CASE t.kind = "Option" -> TRUE
      [] t.kind = "Array" -> \E i \in 1..Len(t.natives) : HasOption(t.natives[i])
      [] OTHER -> FALSE

\* C8: resolution with required = false succeeds exactly when resolution with
\* required = true succeeds, and is then Option of that result, the element
\* types of an array included; resolution with required = true yields no Option
\* at any depth.
C8_OptionIsOneOuterWrapper ==
    Resolved =>
        LET with == from_json_schema(schema, TRUE)
            without == from_json_schema(schema, FALSE)
        IN  /\ without.ok <=> with.ok
            /\ with.ok => ~HasOption(with.val)
            /\ (~required /\ native.val.ok) =>
                   native.val.val = [kind |-> "Option", inner |-> with.val]

RefName(ref) ==
    LET last == CHOOSE i \in 1..Len(ref) :
                    ref[i] = "/" /\ \A j \in (i + 1)..Len(ref) : ref[j] # "/"
    IN  [i \in 1..(Len(ref) - last) |-> ref[last + i]]

\* C9: for a node that is a reference, the primitive-type list and the items
\* are ignored: resolution fails if and only if the reference string holds no
\* "/", and otherwise gives Named(n), n being the text after the last "/"
\* (inside the Option that required = false adds).
C9_ReferenceGivesNamed ==
    (Resolved /\ IsRef) =>
        LET ref == schema.ref_.val
            named == [kind |-> "Named", s |-> RefName(ref)]
        IN  /\ ~native.val.ok <=> \A i \in 1..Len(ref) : ref[i] # "/"
            /\ native.val.ok =>
                 native.val.val = IF required THEN named
                                  ELSE [kind |-> "Option", inner |-> named]

\* the reference /P, on a node that also declares a primitive type, gave Named(P)
C9_Witness ==
    /\ pc = "resolved"
    /\ IsRef /\ required
    /\ schema.ref_.val = <<"/", "P">>
    /\ schema.type_ = <<"null">>
    /\ native.val.val = [kind |-> "Named", s |-> <<"P">>]

RECURSIVE ArraysNonEmpty(_)
ArraysNonEmpty(t) ==
    CASE t.kind = "Array" ->
            /\ Len(t.natives) >= 1
            /\ \A i \in 1..Len(t.natives) : ArraysNonEmpty(t.natives[i])
      [] t.kind = "Option" -> ArraysNonEmpty(t.inner)
      [] OTHER -> TRUE

\* C10: for a node of type array that is not a reference, resolution fails when
\* the items list is empty or an item fails to resolve; otherwise it gives
\* Array(elems), elems having the length and order of the items and elems[i]
\* being the resolution of items[i] under the same required flag (inside the
\* Option that required = false adds). Every Array the resolver produces has an
\* element, and rendering a resolved type never meets an empty Array.
C10_ArrayOfResolvedItems ==
    /\ (Resolved /\ ~IsRef /\ schema.type_ = <<"array">>) =>
          LET items == schema.items
              elems == [i \in 1..Len(items) |-> from_json_schema(items[i], required)]
              fails == Len(items) = 0 \/ \E i \in 1..Len(items) : ~elems[i].ok
              array == [kind |-> "Array",
                        natives |-> [i \in 1..Len(items) |-> elems[i].val]]
          IN  /\ fails <=> ~native.val.ok
              /\ ~fails =>
                   native.val.val = IF required THEN array
                                    ELSE [kind |-> "Option", inner |-> array]
    /\ (Resolved /\ native.val.ok) => ArraysNonEmpty(native.val.val)
    /\ pc # "panicked"

\* an array of a reference and an array was resolved and rendered
C10_Witness ==
    /\ pc = "typed"
    /\ ~IsRef /\ required
    /\ schema.type_ = <<"array">>
    /\ Len(native.val.val.natives) = 2
    /\ native.val.val.natives[1] = [kind |-> "Named", s |-> <<"P">>]
    /\ native.val.val.natives[2].kind = "Array"

----------------------------------------------------------------------------
(* Entrypoint::build *)

Concrete(v) == [is_ref |-> FALSE, value |-> v]
Ref(name) == [is_ref |-> TRUE, name |-> name]

\* MaybeRef::resolve_ref_opt: the value itself, or the entry of that name in
\* the components' map, an error when the map or the entry is missing
resolve_ref_opt(maybe, maybe_map) ==
    IF ~maybe.is_ref THEN Ok(maybe.value)
    ELSE IF maybe_map.some /\ maybe.name \in DOMAIN maybe_map.val
         THEN Ok(maybe_map.val[maybe.name])
    ELSE Err(<<"Reference not found", maybe.name>>)

Parameter(name, in_, req, sch) ==
    [name |-> name, in_ |-> in_, required |-> req, schema |-> sch]

unwrap_or(opt, default) == IF opt.some THEN opt.val ELSE default

build_from_parameter(parameter) ==
    LET req == unwrap_or(parameter.required, FALSE)
        native_type == from_json_schema(parameter.schema, req)
    IN  IF ~native_type.ok THEN native_type
        ELSE Ok(Arg_new(parameter.name, native_type.val, parameter.in_))

\* maybe.resolve_ref_opt(..).map_err(..).and_then(Arg::build_from_parameter)
BuildArg(maybe, comps) ==
    LET p == resolve_ref_opt(maybe, comps.parameters) IN
    IF ~p.ok THEN p ELSE build_from_parameter(p.val)

build_args(op, comps) ==
    IF ~op.parameters.some THEN Ok(<<>>)
    ELSE CollectResults([i \in 1..Len(op.parameters.val) |->
                            BuildArg(op.parameters.val[i], comps)])

build_from_response_obj(status_code, response_obj) ==
    IF ~response_obj.content.some THEN Ok(Response_new(status_code, None, None))
    ELSE LET content_map == response_obj.content.val IN
         IF content_map = <<>> THEN Err(<<"Content map empty">>)
         ELSE LET first == content_map[1] IN
              IF ~first.media.schema.some THEN Err(<<"Media schema not found">>)
              \* For responses, the default required state is 'true'
              ELSE LET typ == from_json_schema(first.media.schema.val, TRUE) IN
                   IF ~typ.ok THEN typ
                   ELSE Ok(Response_new(status_code, Some(typ.val),
                                        Some(first.content_type)))

BuildResponse(entry, comps) ==
    LET response_obj == resolve_ref_opt(entry.response, comps.responses) IN
    IF ~response_obj.ok THEN response_obj
    ELSE build_from_response_obj(entry.code, response_obj.val)

\* the Vec<Result<Response>>, in the iteration order of operation.responses
build_responses(op, comps) ==
    [i \in 1..Len(op.responses) |-> BuildResponse(op.responses[i], comps)]

\* a filter that stops at the first response that failed
FilterOk_until_error(results) ==
    LET bad == {i \in 1..Len(results) : ~results[i].ok}
        stop == IF bad = {} THEN Len(results) + 1
                ELSE CHOOSE i \in bad : \A j \in bad : i <= j
    IN  [i \in 1..(stop - 1) |-> results[i].val]

\* filter_map over the results: the Ok values in order, the Err ones reported
\* and dropped
RECURSIVE FilterOk(_)
FilterOk(results) ==
    IF results = <<>> THEN <<>>
    ELSE IF Head(results).ok THEN <<Head(results).val>> \o FilterOk(Tail(results))
    ELSE FilterOk(Tail(results))

Entrypoint_build(r, m, op, comps) ==
    LET as == build_args(op, comps) IN
    IF ~as.ok THEN as
    ELSE LET rs == FilterOk(build_responses(op, comps)) IN
         IF ~op.operation_id.some THEN Err(<<"No operation_id found">>)
         ELSE LET parsed == Route_from_str(r) IN
              IF ~parsed.ok THEN parsed
              ELSE Entrypoint_new(parsed.val, m, as.val, rs,
                                  OperationId_new(op.operation_id.val),
                                  op.summary, op.description)

----------------------------------------------------------------------------
(* Specification of Entrypoint::build: one operation of a spec is built    *)

S_Integer == Schema(None, <<"integer">>, <<>>, "t0")
S_String == Schema(None, <<"string">>, <<>>, "t0")
S_Null == Schema(None, <<"null">>, <<>>, "t0")
S_Object == Schema(None, <<"object">>, <<>>, "t1")
S_Pet == Schema(Some(<<"/", "P">>), <<>>, <<>>, "t0")
S_BadRef == Schema(Some(<<"P">>), <<>>, <<>>, "t0")

P_a == Parameter(<<"a">>, "path", Some(TRUE), S_Integer)

ParameterPool ==
    {Concrete(P_a),
     Concrete(Parameter(<<"a", "B">>, "path", Some(TRUE), S_String)),
     Concrete(Parameter(<<"a">>, "query", None, S_Object)),
     Concrete(Parameter(<<"a">>, "path", Some(FALSE), S_Null)),
     Ref("p1"),
     Ref("missing")}

Media(sch) == [schema |-> sch]
Content(content_type, media) == [content_type |-> content_type, media |-> media]
ResponseObj(content) == [content |-> content]

R_Pet == ResponseObj(Some(<<Content("application/json", Media(Some(S_Pet)))>>))

ResponsePool ==
    {Concrete(ResponseObj(None)),
     Concrete(ResponseObj(Some(<<>>))),
     Concrete(ResponseObj(Some(<<Content("application/json", Media(None))>>))),
     Concrete(ResponseObj(Some(<<Content("application/json", Media(Some(S_Integer))),
                                 Content("text/plain", Media(Some(S_Null)))>>))),
     Concrete(ResponseObj(Some(<<Content("application/json", Media(Some(S_Null))),
                                 Content("text/plain", Media(Some(S_String)))>>))),
     Concrete(ResponseObj(Some(<<Content("text/plain", Media(Some(S_BadRef)))>>))),
     Ref("r1"),
     Ref("missing")}

StatusCodes == {<<"2", "0", "0">>, <<"2", "0", "1">>, <<"4", "0", "4">>}

\* the entries of a map of responses, no status code twice
ResponseMaps(n) ==
    {rs \in SeqUpTo([code : StatusCodes, response : ResponsePool], n) :
        \A i, j \in 1..Len(rs) : i # j => rs[i].code # rs[j].code}

ComponentsPool ==
    {[parameters |-> Some([n \in {"p1"} |-> P_a]),
      responses |-> Some([n \in {"r1"} |-> R_Pet])],
     \* Default::default()
     [parameters |-> None, responses |-> None]}

Operation(parameters, rs, id) ==
    [parameters |-> parameters, responses |-> rs, operation_id |-> id,
     summary |-> Some("summary"), description |-> None]

BuildRoutes ==
    {<<"/", "a">>,
     <<"/", "{", "a", "}">>,
     <<"/", "{", "a", "B", "}", "/", "{", "a", "}">>,
     <<"/", "a", "{", "a", "}">>}

OperationIds == {None, Some(<<"a", "B">>)}

\* operations whose parameters vary
ParameterCases ==
    [route : BuildRoutes,
     operation :
        {Operation(ps, rs, id) :
            ps \in {None} \cup {Some(v) : v \in SeqUpTo(ParameterPool, MaxParams)},
            rs \in {<<>>, <<[code |-> <<"2", "0", "0">>, response |-> Ref("r1")],
                            [code |-> <<"4", "0", "4">>, response |-> Ref("missing")]>>},
            id \in OperationIds}]

\* operations whose responses vary
ResponseCases ==
    [route : {<<"/", "a">>, <<"/", "{", "a", "}">>},
     operation :
        {Operation(ps, rs, id) :
            ps \in {None, Some(<<Concrete(P_a)>>)},
            rs \in ResponseMaps(MaxResponses),
            id \in OperationIds}]

InitBuild ==
    /\ pc = "build"
    /\ \E c \in ParameterCases \cup ResponseCases :
          /\ route = c.route
          /\ operation = Some(c.operation)
    /\ components \in ComponentsPool
    /\ method \in {"get", "delete"}
    /\ segments = None
    /\ text = None
    /\ args = <<>>
    /\ responses = <<>>
    /\ operation_id = None
    /\ entrypoint = None
    /\ SchemaIdle
    /\ ProjectIdle

BuildArgs ==
    /\ pc = "build"
    /\ LET as == build_args(operation.val, components) IN
       IF as.ok
       THEN /\ args' = as.val
            /\ pc' = "responses"
            /\ UNCHANGED entrypoint
       ELSE /\ entrypoint' = Some(as)
            /\ pc' = "failed"
            /\ UNCHANGED args
    /\ UNCHANGED <<projectVars, routeVars, method, operation, components, responses,
                   operation_id, schemaVars, extractVars>>

BuildResponses ==
    /\ pc = "responses"
    /\ responses' = FilterOk(build_responses(operation.val, components))
    /\ pc' = "opid"
    /\ UNCHANGED <<projectVars, routeVars, method, operation, components, args, operation_id,
                   entrypoint, schemaVars, extractVars>>

TakeOperationId ==
    /\ pc = "opid"
    /\ IF operation.val.operation_id.some
       THEN /\ operation_id' = Some(OperationId_new(operation.val.operation_id.val))
            /\ pc' = "start"
            /\ UNCHANGED entrypoint
       ELSE /\ entrypoint' = Some(Err(<<"No operation_id found">>))
            /\ pc' = "failed"
            /\ UNCHANGED operation_id
    /\ UNCHANGED <<projectVars, routeVars, method, operation, components, args, responses,
                   schemaVars, extractVars>>

\* Route::from_str(&route)? inside Entrypoint::build: the error is the result
RouteError ==
    /\ pc = "malformed"
    /\ entrypoint' = Some(segments.val)
    /\ pc' = "failed"
    /\ UNCHANGED <<projectVars, routeVars, method, operation, components, args, responses,
                   operation_id, schemaVars, extractVars>>

NextBuild ==
    \/ BuildArgs
    \/ BuildResponses
    \/ TakeOperationId
    \/ ParseRoute
    \/ RouteError
    \/ EntrypointNew

SpecBuild == InitBuild /\ [][NextBuild]_vars

----------------------------------------------------------------------------
(* Claims about Entrypoint::build (SpecBuild) *)

BuildEnded == pc \in {"built", "rejected", "failed"}

\* the response object an entry of operation.responses stands for, if any
ResponseObjOf(entry) ==
    IF ~entry.response.is_ref THEN Some(entry.response.value)
    ELSE IF /\ components.responses.some
            /\ entry.response.name \in DOMAIN components.responses.val
         THEN Some(components.responses.val[entry.response.name])
    ELSE None

\* the entry resolves: its reference is found and, if it declares content, the
\* content map has an entry whose first media type has a schema that resolves
ResponseResolves(entry) ==
    LET obj == ResponseObjOf(entry) IN
    /\ obj.some
    /\ obj.val.content.some =>
          /\ obj.val.content.val # <<>>
          /\ obj.val.content.val[1].media.schema.some
          /\ from_json_schema(obj.val.content.val[1].media.schema.val, TRUE).ok

ExpectedResponse(entry) ==
    LET content == ResponseObjOf(entry).val.content IN
    IF ~content.some
    THEN [status_code |-> entry.code, return_type |-> None, content_type |-> None]
    ELSE [status_code |-> entry.code,
          return_type |->
              Some(from_json_schema(content.val[1].media.schema.val, TRUE).val),
          content_type |-> Some(content.val[1].content_type)]

RECURSIVE ExpectedResponses(_)
ExpectedResponses(entries) ==
    IF entries = <<>> THEN <<>>
    ELSE IF ResponseResolves(Head(entries))
         THEN <<ExpectedResponse(Head(entries))>> \o ExpectedResponses(Tail(entries))
    ELSE ExpectedResponses(Tail(entries))

\* parameters, operation id and route of the operation are valid
OperationValid ==
    LET as == build_args(operation.val, components)
        parsed == Route_from_str(route)
    IN  /\ as.ok
        /\ operation.val.operation_id.some
        /\ parsed.ok
        /\ validate_route_args(parsed.val, as.val).ok

\* C4: when parameters, operation id and route are valid, Entrypoint::build
\* produces the Entrypoint whatever happens to its responses, and the response
\* list is the responses that resolved, in the order of operation.responses,
\* each failed one left out; a response that declares no content has neither a
\* return type nor a content type.
C4_ResponseFailuresAreNotFatal ==
    (BuildEnded /\ OperationValid) =>
        /\ pc = "built"
        /\ entrypoint.val.ok
        /\ entrypoint.val.val.responses = ExpectedResponses(operation.val.responses)

\* an Entrypoint was built from a response with an empty content map, which was
\* dropped, followed by a response with no content, which was kept
C4_Witness ==
    /\ pc = "built"
    /\ Len(operation.val.responses) = 2
    /\ operation.val.responses[1].response = Concrete(ResponseObj(Some(<<>>)))
    /\ operation.val.responses[2].response = Concrete(ResponseObj(None))
    /\ Len(entrypoint.val.val.responses) = 1
    /\ entrypoint.val.val.responses[1].status_code = operation.val.responses[2].code
    /\ entrypoint.val.val.responses[1].return_type = None
    /\ entrypoint.val.val.responses[1].content_type = None

\* the steps of Entrypoint::build give what Entrypoint_build gives
BuildStepsAgree ==
    BuildEnded =>
        entrypoint.val = Entrypoint_build(route, method, operation.val, components)

----------------------------------------------------------------------------
(* extract_entrypoints *)

\* Ord of Method, as derived: the order of declaration
\* an order of the methods by their names
MethodRank_by_name(m) ==
    CASE m = "delete" -> 1 [] m = "get" -> 2 [] m = "patch" -> 3
      [] m = "post" -> 4 [] m = "put" -> 5

MethodRank(m) == CHOOSE i \in 1..Len(Methods) : Methods[i] = m

\* BTreeMap::insert on a map kept as its entries in the order of the keys
RECURSIVE BTreeInsert(_, _, _)
BTreeInsert(map, key, val) ==
    IF map = <<>> THEN <<[method |-> key, op |-> val]>>
    ELSE IF MethodRank(key) < MethodRank(Head(map).method)
         THEN <<[method |-> key, op |-> val]>> \o map
    ELSE IF key = Head(map).method
         THEN <<[method |-> key, op |-> val]>> \o Tail(map)
    ELSE <<Head(map)>> \o BTreeInsert(Tail(map), key, val)

InsertIfSome(map, key, opt) ==
    IF opt.some THEN BTreeInsert(map, key, opt.val) ELSE map

path_as_map(path) ==
    LET m1 == InsertIfSome(<<>>, "get", path.get)
        m2 == InsertIfSome(m1, "post", path.post)
        m3 == InsertIfSome(m2, "put", path.put)
        m4 == InsertIfSome(m3, "patch", path.patch)
    IN  InsertIfSome(m4, "delete", path.delete)

\* the (route, method, op) the two loops take, in the order they take them
RECURSIVE Iteration(_)
Iteration(paths) ==
    IF paths = <<>> THEN <<>>
    ELSE LET map == path_as_map(Head(paths).path) IN
         [i \in 1..Len(map) |->
             [route |-> Head(paths).route, method |-> map[i].method, op |-> map[i].op]]
         \o Iteration(Tail(paths))

\* spec.components.as_ref().unwrap_or(&Default::default())
ComponentsOf(spec) ==
    unwrap_or(spec.components, [parameters |-> None, responses |-> None])

----------------------------------------------------------------------------
(* Specification of extract_entrypoints: the operations of a spec are      *)
(* built one after the other                                               *)

Response200(r) == [code |-> <<"2", "0", "0">>, response |-> r]
Response404(r) == [code |-> <<"4", "0", "4">>, response |-> r]

OpGood == Operation(None, <<Response200(Concrete(ResponseObj(None)))>>,
                    Some(<<"a", "B">>))
OpParam == Operation(Some(<<Concrete(P_a)>>),
                     <<Response200(Ref("r1")), Response404(Ref("missing"))>>,
                     Some(<<"a">>))
OpNoId == Operation(None, <<Response200(Ref("r1"))>>, None)
OpBadParam == Operation(Some(<<Ref("missing")>>), <<>>, Some(<<"b">>))

OperationPool == {OpGood, OpParam, OpNoId, OpBadParam}

PathItem(get, post, put, patch, delete) ==
    [get |-> get, post |-> post, put |-> put, patch |-> patch, delete |-> delete]

PathPool ==
    {PathItem(None, None, None, None, None)}
    \cup {PathItem(Some(o), None, None, None, None) : o \in OperationPool}
    \cup {PathItem(None, None, None, None, Some(OpGood)),
          PathItem(Some(OpGood), Some(OpParam), None, None, None),
          PathItem(Some(OpNoId), Some(OpBadParam), None, None, None)}
    \cup {PathItem(None, None, None, Some(OpParam), Some(OpNoId)),
          PathItem(None, None, None, Some(OpNoId), Some(OpGood)),
          PathItem(Some(OpGood), Some(OpParam), Some(OpNoId), Some(OpGood),
                   Some(OpParam))}

ExtractRoutes ==
    {<<"/", "a">>, <<"/", "{", "a", "}">>, <<"/", "a", "{", "a", "}">>}

\* the entries of spec.paths, a map: no route twice
PathMaps(n) ==
    {ps \in SeqUpTo([route : ExtractRoutes, path : PathPool], n) :
        \A i, j \in 1..Len(ps) : i # j => ps[i].route # ps[j].route}

InitExtract ==
    /\ pc = "extract"
    /\ api \in [components : {None, Some(CHOOSE c \in ComponentsPool : c.parameters.some)},
                paths : PathMaps(MaxPaths)]
    /\ cursor = 0
    /\ out = <<>>
    /\ stderr = <<>>
    /\ route = <<>>
    /\ segments = None
    /\ text = None
    /\ BuildIdle
    /\ schema = None
    /\ required = TRUE
    /\ native = None
    /\ rendered = None
    /\ ProjectIdle

\* the operation the loops take next and what Entrypoint::build makes of it
NextOperation == Iteration(api.paths)[cursor + 1]
NextBuilt ==
    Entrypoint_build(NextOperation.route, NextOperation.method, NextOperation.op,
                     ComponentsOf(api))

\* Ok(entrypoint) => out.push(entrypoint)
PushEntrypoint ==
    /\ pc = "extract"
    /\ cursor < Len(Iteration(api.paths))
    /\ NextBuilt.ok
    /\ out' = Append(out, NextBuilt.val)
    /\ cursor' = cursor + 1
    /\ UNCHANGED <<projectVars, pc, routeVars, buildVars, schema, required, native, rendered,
                   api, stderr>>

\* an error that ends the extraction, as the ? operator would
ReportError_abort ==
    /\ pc = "extract"
    /\ cursor < Len(Iteration(api.paths))
    /\ ~NextBuilt.ok
    /\ stderr' = Append(stderr, NextBuilt.err)
    /\ out' = <<>>
    /\ cursor' = Len(Iteration(api.paths))
    /\ UNCHANGED <<projectVars, pc, routeVars, buildVars, schema, required, native, rendered,
                   api>>

\* Err(e) => eprintln!("{}", e)
ReportError ==
    /\ pc = "extract"
    /\ cursor < Len(Iteration(api.paths))
    /\ ~NextBuilt.ok
    /\ stderr' = Append(stderr, NextBuilt.err)
    /\ cursor' = cursor + 1
    /\ UNCHANGED <<projectVars, pc, routeVars, buildVars, schema, required, native, rendered,
                   api, out>>

\* the loops are over: out is returned
ReturnOut ==
    /\ pc = "extract"
    /\ cursor = Len(Iteration(api.paths))
    /\ pc' = "extracted"
    /\ UNCHANGED <<projectVars, routeVars, buildVars, schemaVars, extractVars>>

NextExtract == PushEntrypoint \/ ReportError \/ ReturnOut

SpecExtract == InitExtract /\ [][NextExtract]_vars

----------------------------------------------------------------------------
(* Claims about extract_entrypoints (SpecExtract) *)

Operations == Iteration(api.paths)

BuildOf(o) == Entrypoint_build(o.route, o.method, o.op, ComponentsOf(api))

Succeeding == {i \in 1..Len(Operations) : BuildOf(Operations[i]).ok}

\* C3: extract_entrypoints returns, for any spec, exactly one Entrypoint for
\* each (path, method) operation whose build succeeds, that Entrypoint being
\* what the build of the operation alone gives, and none for an operation whose
\* build fails; each failure is reported and the extraction goes on.
C3_ExtractionKeepsEverySuccess ==
    /\ pc = "extract" => Len(out) + Len(stderr) = cursor
    /\ pc = "extracted" =>
          /\ cursor = Len(Operations)
          /\ Len(out) = Cardinality(Succeeding)
          /\ Len(stderr) = Len(Operations) - Cardinality(Succeeding)
          /\ \A i \in Succeeding :
                Cardinality({j \in 1..Len(out) : out[j] = BuildOf(Operations[i]).val}) = 1
          /\ \A j \in 1..Len(out) :
                \E i \in Succeeding :
                    /\ out[j] = BuildOf(Operations[i]).val
                    /\ out[j].method = Operations[i].method
                    /\ Ok(out[j].route) = Route_from_str(Operations[i].route)

\* a spec was extracted in which an operation that fails lies between two that
\* succeed, and another fails for its route
C3_Witness ==
    /\ pc = "extracted"
    /\ Len(out) >= 2
    /\ \E i, j, k \in 1..Len(Operations) :
          /\ i < j /\ j < k
          /\ i \in Succeeding /\ k \in Succeeding
          /\ j \notin Succeeding
    /\ \E i \in 1..Len(Operations) : ~Route_from_str(Operations[i].route).ok

\* GET, POST, PUT, PATCH, DELETE
FixedOrder == <<"get", "post", "put", "patch", "delete">>

PlaceIn(seq, x) == CHOOSE i \in 1..Len(seq) : seq[i] = x

\* the place, in the spec's path iteration order, of the path of an Entrypoint
PathPlace(e) ==
    CHOOSE k \in 1..Len(api.paths) : Route_from_str(api.paths[k].route) = Ok(e.route)

\* C14: the sequence extract_entrypoints builds follows the path iteration
\* order of the spec (so the Entrypoints of one path are contiguous) and,
\* within one path, the order GET, POST, PUT, PATCH, DELETE; every Entrypoint
\* comes from a method that is present on its path.
C14_PathThenMethodOrder ==
    pc \in {"extract", "extracted"} =>
        /\ \A j \in 1..Len(out) :
              /\ \E k \in 1..Len(api.paths) :
                    Route_from_str(api.paths[k].route) = Ok(out[j].route)
              /\ api.paths[PathPlace(out[j])].path[out[j].method].some
        /\ \A i, j \in 1..Len(out) :
              i < j =>
                 \/ PathPlace(out[i]) < PathPlace(out[j])
                 \/ /\ PathPlace(out[i]) = PathPlace(out[j])
                    /\ PlaceIn(FixedOrder, out[i].method)
                          < PlaceIn(FixedOrder, out[j].method)

\* two paths were extracted: GET and PATCH of the first, then POST and DELETE
\* of the second, the other methods failing
C14_Witness ==
    /\ pc = "extracted"
    /\ Len(api.paths) = 2
    /\ Len(out) = 4
    /\ <<out[1].method, out[2].method, out[3].method, out[4].method>>
          = <<"get", "patch", "post", "delete">>
    /\ PathPlace(out[2]) = 1
    /\ PathPlace(out[3]) = 2
    /\ stderr # <<>>

----------------------------------------------------------------------------
(* Entrypoint::build_template_args *)

starts_with(s, c) == Len(s) >= 1 /\ s[1] = c

T_Unit == <<"(", ")">>

\* the first response in the 200 range, None when there is none
RECURSIVE FirstSuccess(_)
FirstSuccess(rs) ==
    IF rs = <<>> THEN None
    ELSE IF starts_with(Head(rs).status_code, "2") THEN Some(Head(rs))
    ELSE FirstSuccess(Tail(rs))

\* a result type taken from the last response in the 200 range
result_type_last(e, anon_count) ==
    LET good == {i \in 1..Len(e.responses) :
                    starts_with(e.responses[i].status_code, "2")}
        last == CHOOSE i \in good : \A j \in good : j <= i
        resp == e.responses[last]
    IN  IF good = {} THEN [panic |-> FALSE, text |-> T_Unit, warning |-> TRUE]
        ELSE IF ~resp.return_type.some
             THEN [panic |-> FALSE, text |-> T_Unit, warning |-> FALSE]
        ELSE LET r == render(resp.return_type.val, anon_count, e.operation_id) IN
             IF r.panic THEN Panic
             ELSE [panic |-> FALSE, text |-> r.text, warning |-> FALSE]

\* the text of the result type, and whether the warning was written
result_type(e, anon_count) ==
    LET resp == FirstSuccess(e.responses) IN
    IF ~resp.some THEN [panic |-> FALSE, text |-> T_Unit, warning |-> TRUE]
    ELSE IF ~resp.val.return_type.some
         THEN [panic |-> FALSE, text |-> T_Unit, warning |-> FALSE]
    ELSE LET r == render(resp.val.return_type.val, anon_count, e.operation_id) IN
         IF r.panic THEN Panic
         ELSE [panic |-> FALSE, text |-> r.text, warning |-> FALSE]

docstring(e) ==
    CASE e.summary.some /\ e.description.some ->
            Some(<<"/// ", e.summary.val, "\n/// ", e.description.val, "\n">>)
      [] e.summary.some /\ ~e.description.some ->
            Some(<<"/// ", e.summary.val, "\n">>)
      [] ~e.summary.some /\ e.description.some ->
            Some(<<"/// ", e.description.val, "\n">>)
      [] OTHER -> None

\* a fold that gives every argument the counter 1
RECURSIVE FoldArgs_restart(_, _, _, _)
FoldArgs_restart(as, id, acc, anon_count) ==
    IF as = <<>> THEN [panic |-> FALSE, args_json |-> acc, anon_count |-> anon_count]
    ELSE LET rendered_type == render(Head(as).type_, 1, id) IN
         IF rendered_type.panic THEN Panic
         ELSE FoldArgs_restart(Tail(as), id,
                    Append(acc, [name |-> Head(as).name, type |-> rendered_type.text]),
                    rendered_type.count)

\* the fold over self.args: the arguments rendered so far and the counter
RECURSIVE FoldArgs(_, _, _, _)
FoldArgs(as, id, acc, anon_count) ==
    IF as = <<>> THEN [panic |-> FALSE, args_json |-> acc, anon_count |-> anon_count]
    ELSE LET rendered_type == render(Head(as).type_, anon_count, id) IN
         IF rendered_type.panic THEN Panic
         ELSE FoldArgs(Tail(as), id,
                    Append(acc, [name |-> Head(as).name, type |-> rendered_type.text]),
                    rendered_type.count)

build_template_args(e) ==
    LET folded == FoldArgs(e.args, e.operation_id, <<>>, 1) IN
    IF folded.panic THEN Panic
    ELSE LET result == result_type(e, folded.anon_count) IN
         IF result.panic THEN Panic
         ELSE [panic |-> FALSE,
               warning |-> result.warning,
               json |-> [method |-> e.method,
                         route |-> Route_render(e.route),
                         function |-> e.operation_id,
                         args |-> folded.args_json,
                         result_type |-> result.text,
                         documentation |-> docstring(e)]]

----------------------------------------------------------------------------
(* Specification of the projection: an Entrypoint that Entrypoint::build   *)
(* gave is projected, and projected again                                  *)

S_Objects == Schema(None, <<"array">>, <<S_Object, S_Object>>, "t0")
S_PetAndObject == Schema(None, <<"array">>, <<S_Pet, S_Object>>, "t0")

ProjectSchemas == {S_Object, S_Objects, S_PetAndObject}

\* query parameters: every schema above required, and the object not required
ProjectParameters ==
    {Concrete(Parameter(<<"a">>, "query", Some(TRUE), sch)) : sch \in ProjectSchemas}
    \cup {Concrete(Parameter(<<"a">>, "query", None, S_Object))}

\* responses with no content, with an anonymous type, and one that is dropped
ProjectResponses ==
    {Concrete(ResponseObj(None)),
     Concrete(ResponseObj(Some(<<Content("application/json", Media(Some(S_Object)))>>))),
     Concrete(ResponseObj(Some(<<Content("application/json", Media(Some(S_Null)))>>)))}

ProjectResponseMaps(n) ==
    {rs \in SeqUpTo([code : StatusCodes, response : ProjectResponses], n) :
        \A i, j \in 1..Len(rs) : i # j => rs[i].code # rs[j].code}

ProjectOperations ==
    {Operation(Some(ps), rs, Some(<<"a", "B">>)) :
        ps \in SeqUpTo(ProjectParameters, MaxParams),
        rs \in ProjectResponseMaps(MaxResponses)}

InitProject ==
    /\ pc = "built"
    /\ route = <<"/", "a">>
    /\ method = "get"
    /\ operation \in {Some(op) : op \in ProjectOperations}
    /\ components = [parameters |-> None, responses |-> None]
    /\ segments = Some(Route_from_str(route))
    /\ text = None
    /\ args = build_args(operation.val, components).val
    /\ responses = FilterOk(build_responses(operation.val, components))
    /\ operation_id = Some(OperationId_new(operation.val.operation_id.val))
    /\ entrypoint = Some(Entrypoint_build(route, method, operation.val, components))
    /\ SchemaIdle
    /\ ProjectIdle

\* one call of build_template_args on the Entrypoint: the first, then a second
Project ==
    /\ pc \in {"built", "projected"}
    /\ LET projected == build_template_args(entrypoint.val.val) IN
       /\ tmpl_args' = Append(tmpl_args, projected)
       /\ stderr' = IF ~projected.panic /\ projected.warning
                    THEN Append(stderr, "Warning: no success code found")
                    ELSE stderr
    /\ pc' = IF pc = "built" THEN "projected" ELSE "reprojected"
    /\ UNCHANGED <<routeVars, buildVars, schemaVars, api, cursor, out>>
    /\ UNCHANGED <<anon_count0, target, routes, writer>>

NextProject == Project

SpecProject == InitProject /\ [][NextProject]_vars

----------------------------------------------------------------------------
(* Claims about the projection (SpecProject) *)

Projected == pc \in {"projected", "reprojected"}

TheEntrypoint == entrypoint.val.val

AnonArgText == <<"A", "n", "o", "n", "A", "r", "g">>

TypeDelimiters == {"<", ">", "(", ")"}

\* the identifiers of a rendered type, in the order they are written
RECURSIVE Identifiers(_, _)
Identifiers(txt, cur) ==
    IF txt = <<>> THEN (IF cur = <<>> THEN <<>> ELSE <<cur>>)
    ELSE IF Head(txt) \in TypeDelimiters
         THEN (IF cur = <<>> THEN <<>> ELSE <<cur>>) \o Identifiers(Tail(txt), <<>>)
    ELSE Identifiers(Tail(txt), Append(cur, Head(txt)))

HasAnonArg(ident) ==
    \E i \in 1..Len(ident) :
        /\ i + Len(AnonArgText) - 1 <= Len(ident)
        /\ SubSeq(ident, i, i + Len(AnonArgText) - 1) = AnonArgText

\* the synthesized names written in a rendered type, in order
SynthesizedNames(txt) == SelectSeq(Identifiers(txt, <<>>), HasAnonArg)

\* the synthesized names of a projection: those of the arguments in
\* declaration order, then those of the result type
ArgumentNames(p) ==
    Concat([i \in 1..Len(p.json.args) |-> SynthesizedNames(p.json.args[i].type)])

ProjectionNames(p) == ArgumentNames(p) \o SynthesizedNames(p.json.result_type)

ExpectedName(k) == classcase(TheEntrypoint.operation_id) \o AnonArgText \o Decimal(k)

\* C11: in a projection the synthesized names are, in the order the arguments
\* declare them and then the result type, <ClassCase>AnonArg1,
\* <ClassCase>AnonArg2, ... (so they are pairwise distinct, the name of the
\* result type included); every projection of the same Entrypoint gives the
\* same value, and the Entrypoint is the one Entrypoint::build gave.
C11_AnonymousNamesNumberedAndStable ==
    Projected =>
        /\ \A i \in 1..Len(tmpl_args) :
              LET p == tmpl_args[i]
                  names == ProjectionNames(p)
              IN  /\ ~p.panic
                  /\ \A k \in 1..Len(names) : names[k] = ExpectedName(k)
                  /\ \A k, l \in 1..Len(names) : k # l => names[k] # names[l]
        /\ \A i, j \in 1..Len(tmpl_args) : tmpl_args[i] = tmpl_args[j]
        /\ entrypoint = Some(Entrypoint_build(route, method, operation.val, components))

\* two anonymous arguments and an anonymous result type were projected twice:
\* the names are ABAnonArg1, ABAnonArg2 and ABAnonArg3
C11_Witness ==
    /\ Projected
    /\ Len(tmpl_args) = 2
    /\ Len(TheEntrypoint.args) = 2
    /\ TheEntrypoint.args[1].type_.kind = "Anonymous"
    /\ TheEntrypoint.args[2].type_.kind = "Option"
    /\ ArgumentNames(tmpl_args[2]) =
          <<<<"A", "B">> \o AnonArgText \o <<"1">>,
            <<"A", "B">> \o AnonArgText \o <<"2">>>>
    /\ tmpl_args[2].json.result_type = <<"A", "B">> \o AnonArgText \o <<"3">>

\* the places, in the Entrypoint's responses, of the status codes that begin
\* with "2"
SuccessPlaces ==
    {i \in 1..Len(TheEntrypoint.responses) :
        TheEntrypoint.responses[i].status_code[1] = "2"}

FirstSuccessPlace == CHOOSE i \in SuccessPlaces : \A j \in SuccessPlaces : i <= j

\* C12: the projected result type is that of the first response, in the
\* Entrypoint's order, whose status code begins with "2": the rendering of its
\* return type, or "()" when it has none; with no such response (also when
\* the resolver dropped them all) it is "()" and the projection succeeds.
C12_ResultTypeOfFirstSuccess ==
    Projected =>
        \A i \in 1..Len(tmpl_args) :
            LET p == tmpl_args[i] IN
            /\ ~p.panic
            /\ IF SuccessPlaces = {} THEN p.json.result_type = <<"(", ")">>
               ELSE LET resp == TheEntrypoint.responses[FirstSuccessPlace] IN
                    IF ~resp.return_type.some THEN p.json.result_type = <<"(", ")">>
                    ELSE p.json.result_type =
                            render(resp.return_type.val,
                                   1 + Len(ArgumentNames(p)),
                                   TheEntrypoint.operation_id).text

\* the only response in the 200 range failed to resolve and was dropped: the
\* result type is "()"
C12_Witness ==
    /\ Projected
    /\ Len(operation.val.responses) = 2
    /\ operation.val.responses[1].code = <<"4", "0", "4">>
    /\ operation.val.responses[2].code = <<"2", "0", "0">>
    /\ Len(TheEntrypoint.responses) = 1
    /\ SuccessPlaces = {}
    /\ tmpl_args[1].json.result_type = <<"(", ")">>
    /\ stderr = <<"Warning: no success code found">>

----------------------------------------------------------------------------
(* generate_server_endpoints and generate_function_stubs (src/src/lib.rs) *)

\* what extract_entrypoints returns, and what it writes to stderr
extract_entrypoints(spec) ==
    LET ops == Iteration(spec.paths) IN
    FilterOk([i \in 1..Len(ops) |->
                 Entrypoint_build(ops[i].route, ops[i].method, ops[i].op,
                                  ComponentsOf(spec))])

RECURSIVE Errors(_)
Errors(results) ==
    IF results = <<>> THEN <<>>
    ELSE IF Head(results).ok THEN Errors(Tail(results))
    ELSE <<Head(results).err>> \o Errors(Tail(results))

extract_stderr(spec) ==
    LET ops == Iteration(spec.paths) IN
    Errors([i \in 1..Len(ops) |->
               Entrypoint_build(ops[i].route, ops[i].method, ops[i].op,
                                ComponentsOf(spec))])

SwaggerRoute == <<"/", "s", "w", "a", "g", "g", "e", "r">>
SwaggerOperationId == <<"g", "e", "t", "S", "w", "a", "g", "g", "e", "r">>
SwaggerSummary == "OpenAPI schema in JSON format"

\* Entrypoint::swagger_entrypoint: both unwrap() panic on an Err
swagger_entrypoint ==
    LET r == Route_from_str(SwaggerRoute) IN
    IF ~r.ok THEN Panic
    ELSE LET e == Entrypoint_new(r.val, "get", <<>>,
                      <<Response_new(<<"2", "0", "0">>, Some(T_String),
                                     Some("application/json"))>>,
                      OperationId_new(SwaggerOperationId),
                      Some(SwaggerSummary), None)
         IN  IF ~e.ok THEN Panic ELSE [panic |-> FALSE, val |-> e.val]

\* a generator that puts the swagger entrypoint before the extracted ones
push_front(entrypoints, swagger) == <<swagger>> \o entrypoints

\* entrypoints.push(swagger)
push(entrypoints, swagger) == Append(entrypoints, swagger)

\* what the templates write of the template arguments they are given
render_route(tmpl) ==
    [template |-> "route", method |-> tmpl.method, route |-> tmpl.route,
     function |-> tmpl.function, args |-> tmpl.args,
     result_type |-> tmpl.result_type]

render_stub(tmpl) ==
    [template |-> "stub", function |-> tmpl.function,
     result_type |-> tmpl.result_type]

render_launch(rs) == [template |-> "launch", routes |-> rs]

----------------------------------------------------------------------------
(* Specification of the generators: a spec is extracted, the swagger       *)
(* entrypoint pushed, and every entrypoint projected and written           *)

\* an operation of the spec that is the one swagger_entrypoint makes
OpSwagger ==
    [parameters |-> None,
     responses |-> <<Response200(Concrete(ResponseObj(
                        Some(<<Content("application/json", Media(Some(S_String)))>>))))>>,
     operation_id |-> Some(SwaggerOperationId),
     summary |-> Some(SwaggerSummary),
     description |-> None]

GenPathPool ==
    {PathItem(None, None, None, None, None),
     PathItem(Some(OpGood), None, None, None, None),
     PathItem(Some(OpSwagger), None, None, None, None),
     PathItem(Some(OpNoId), Some(OpParam), None, None, None),
     PathItem(Some(OpParam), None, None, None, Some(OpGood))}

GenRoutes == {<<"/", "a">>, <<"/", "{", "a", "}">>, SwaggerRoute}

GenPathMaps(n) ==
    {ps \in SeqUpTo([route : GenRoutes, path : GenPathPool], n) :
        \A i, j \in 1..Len(ps) : i # j => ps[i].route # ps[j].route}

InitGenerate ==
    /\ pc = "generate"
    /\ target \in {"gen", "stub"}
    /\ api \in [components : {None, Some(CHOOSE c \in ComponentsPool : c.parameters.some)},
                paths : GenPathMaps(MaxPaths)]
    /\ cursor = 0
    /\ out = <<>>
    /\ stderr = <<>>
    /\ routes = <<>>
    /\ writer = <<>>
    /\ anon_count0 = 1
    /\ tmpl_args = <<>>
    /\ route = <<>>
    /\ segments = None
    /\ text = None
    /\ BuildIdle
    /\ schema = None
    /\ required = TRUE
    /\ native = None
    /\ rendered = None

\* extract_entrypoints(spec), entrypoints.push(swagger), and the header
CollectEntrypoints ==
    /\ pc = "generate"
    /\ stderr' = extract_stderr(api)
    /\ IF swagger_entrypoint.panic
       THEN /\ pc' = "panicked"
            /\ UNCHANGED <<out, writer>>
       ELSE /\ out' = push(extract_entrypoints(api), swagger_entrypoint.val)
            /\ writer' = <<IF target = "gen" THEN "GEN_HEADER" ELSE "STUB_HEADER">>
            /\ pc' = "emit"
    /\ UNCHANGED <<routeVars, buildVars, schemaVars, api, cursor,
                   anon_count0, tmpl_args, target, routes>>

\* one turn of the loop over the entrypoints
EmitEntrypoint ==
    /\ pc = "emit"
    /\ cursor < Len(out)
    /\ LET entry == out[cursor + 1]
           projected == build_template_args(entry)
       IN  IF projected.panic
           THEN /\ pc' = "panicked"
                /\ UNCHANGED <<cursor, stderr, tmpl_args, routes, writer>>
           ELSE /\ tmpl_args' = <<projected>>
                /\ stderr' = IF projected.warning
                             THEN Append(stderr, "Warning: no success code found")
                             ELSE stderr
                /\ routes' = IF target = "gen" THEN Append(routes, entry.operation_id)
                             ELSE routes
                /\ writer' = Append(writer,
                                    IF target = "gen" THEN render_route(projected.json)
                                    ELSE render_stub(projected.json))
                /\ cursor' = cursor + 1
                /\ pc' = "emit"
    /\ UNCHANGED <<routeVars, buildVars, schemaVars, api, out, anon_count0, target>>

\* the launch template, with the routes, ends generate_server_endpoints
WriteLaunch ==
    /\ pc = "emit"
    /\ cursor = Len(out)
    /\ target = "gen"
    /\ writer' = Append(writer, render_launch(routes))
    /\ pc' = "generated"
    /\ UNCHANGED <<routeVars, buildVars, schemaVars, extractVars,
                   anon_count0, tmpl_args, target, routes>>

\* generate_function_stubs ends with the loop
ReturnStubs ==
    /\ pc = "emit"
    /\ cursor = Len(out)
    /\ target = "stub"
    /\ pc' = "generated"
    /\ UNCHANGED <<routeVars, buildVars, schemaVars, extractVars, projectVars>>

NextGenerate == CollectEntrypoints \/ EmitEntrypoint \/ WriteLaunch \/ ReturnStubs

SpecGenerate == InitGenerate /\ [][NextGenerate]_vars

----------------------------------------------------------------------------
(* Claims about the generators (SpecGenerate) *)

Generated == pc = "generated"

\* the i-th operation of the spec, in extraction order, whose build succeeds
NthSucceeding(n) ==
    CHOOSE i \in Succeeding : Cardinality({k \in Succeeding : k < i}) = n - 1

\* what the generator wrote for the entrypoints: all but the header and, in the
\* route-dispatch code, the mount-all list
Emitted ==
    IF target = "gen" THEN SubSeq(writer, 2, Len(writer) - 1)
    ELSE SubSeq(writer, 2, Len(writer))

IsIntrospection(e) ==
    /\ e.method = "get"
    /\ e.route = <<PathSeg(<<>>), PathSeg(<<"s", "w", "a", "g", "g", "e", "r">>)>>
    /\ e.args = <<>>
    /\ e.responses = <<[status_code |-> <<"2", "0", "0">>,
                        return_type |-> Some([kind |-> "String"]),
                        content_type |-> Some("application/json")]>>

\* the loops of extract_entrypoints, taken a step at a time, give what the
\* generators are given
ExtractStepsAgree ==
    pc = "extracted" => out = extract_entrypoints(api) /\ stderr = extract_stderr(api)

\* C13: both generators emit the entrypoints extracted from the spec, in
\* extraction order, and then the introspection entrypoint, once and last:
\* the emitted entrypoints are one more than the operations that were
\* extracted, the construction of the introspection entrypoint never fails,
\* and the mount-all list names the emitted entrypoints in the same order.
C13_IntrospectionAppendedOnceAndLast ==
    /\ pc # "panicked"
    /\ Generated =>
          LET n == Cardinality(Succeeding) IN
          /\ Len(out) = n + 1
          /\ Len(Emitted) = n + 1
          /\ \A j \in 1..n : out[j] = BuildOf(Operations[NthSucceeding(j)]).val
          /\ IsIntrospection(out[n + 1])
          /\ \A j \in 1..(n + 1) :
                /\ Emitted[j].template = (IF target = "gen" THEN "route" ELSE "stub")
                /\ Emitted[j].function = out[j].operation_id
                /\ target = "gen" =>
                      /\ Emitted[j].method = out[j].method
                      /\ Emitted[j].route = Route_render(out[j].route)
          /\ Emitted[n + 1].function =
                <<"g", "e", "t", "_", "s", "w", "a", "g", "g", "e", "r">>
          /\ Emitted[n + 1].result_type = <<"S", "t", "r", "i", "n", "g">>
          /\ target = "gen" =>
                /\ writer[Len(writer)].template = "launch"
                /\ writer[Len(writer)].routes = [j \in 1..(n + 1) |-> Emitted[j].function]
                /\ routes = [j \in 1..(n + 1) |-> out[j].operation_id]

\* the route-dispatch code of a spec with two operations that build and one
\* that does not: three entrypoints are emitted and mounted, the last being
\* the introspection entrypoint
C13_Witness ==
    /\ Generated
    /\ target = "gen"
    /\ Len(Operations) = 3
    /\ Cardinality(Succeeding) = 2
    /\ Len(Emitted) = 3
    /\ ~IsIntrospection(out[1]) /\ ~IsIntrospection(out[2])
    /\ IsIntrospection(out[3])
    /\ Len(writer[Len(writer)].routes) = 3

----------------------------------------------------------------------------
(* Specification of NativeType::render: a type, with Arrays that are not   *)
(* empty as the resolver gives them, is rendered from a counter            *)

MaxCount == 2

LeafTypes == {T_I64, Named(<<"P">>), Anonymous(S_Object)}

NonEmptySeqs(S, n) == UNION {[1..k -> S] : k \in 1..n}

InnerTypes ==
    LeafTypes
    \cup {Option(t) : t \in LeafTypes}
    \cup {Array(ts) : ts \in NonEmptySeqs(LeafTypes, MaxItems)}

RenderTypes ==
    InnerTypes
    \cup {Option(t) : t \in InnerTypes}
    \cup {Array(ts) : ts \in NonEmptySeqs(InnerTypes, MaxItems)}

InitRender ==
    /\ pc = "render"
    /\ native \in {Some(Ok(t)) : t \in RenderTypes}
    /\ anon_count0 \in 1..MaxCount
    /\ operation_id = Some(OperationId_new(<<"a", "B">>))
    /\ rendered = None
    /\ schema = None
    /\ required = TRUE
    /\ route = <<>>
    /\ segments = None
    /\ text = None
    /\ method = "get"
    /\ operation = None
    /\ components = None
    /\ args = <<>>
    /\ responses = <<>>
    /\ entrypoint = None
    /\ api = None
    /\ cursor = 0
    /\ out = <<>>
    /\ stderr = <<>>
    /\ tmpl_args = <<>>
    /\ target = "gen"
    /\ routes = <<>>
    /\ writer = <<>>

\* self.render(anon_count, operation_id)
RenderType ==
    /\ pc = "render"
    /\ rendered' = Some(render(native.val.val, anon_count0, operation_id.val))
    /\ pc' = IF rendered'.val.panic THEN "panicked" ELSE "rendered"
    /\ UNCHANGED <<routeVars, buildVars, extractVars, projectVars,
                   schema, required, native>>

NextRender == RenderType

SpecRender == InitRender /\ [][NextRender]_vars

----------------------------------------------------------------------------
(* Claims about NativeType::render (SpecRender) *)

RECURSIVE SumOf(_)
SumOf(ns) == IF ns = <<>> THEN 0 ELSE Head(ns) + SumOf(Tail(ns))

\* the Anonymous nodes nested anywhere in a type
RECURSIVE CountAnonymous(_)
CountAnonymous(t) ==
    CASE t.kind = "Anonymous" -> 1
      [] t.kind = "Option" -> CountAnonymous(t.inner)
      [] t.kind = "Array" ->
            SumOf([i \in 1..Len(t.natives) |-> CountAnonymous(t.natives[i])])
      [] OTHER -> 0

\* the Anonymous nodes met through Option and the first element of each Array
RECURSIVE CountFirstAnonymous(_)
CountFirstAnonymous(t) ==
    CASE t.kind = "Anonymous" -> 1
      [] t.kind = "Option" -> CountFirstAnonymous(t.inner)
      [] t.kind = "Array" -> CountFirstAnonymous(t.natives[1])
      [] OTHER -> 0

SlotName(n) == classcase(operation_id.val) \o AnonArgText \o Decimal(n)

\* C15: render(t, n) returns the counter n + k, k being the number of
\* Anonymous nodes nested anywhere in t, through Option and through every
\* element of an Array, and each of them takes a counter slot of its own: the
\* names written are those of the slots n, ..., n + k - 1, in order.
C15_CounterCountsEveryAnonymous ==
    pc = "rendered" =>
        LET t == native.val.val
            k == CountAnonymous(t)
        IN  /\ rendered.val.count = anon_count0 + k
            /\ SynthesizedNames(rendered.val.text) =
                  [i \in 1..k |-> SlotName(anon_count0 + i - 1)]

\* what render does: the counter and the names are those of the Anonymous nodes
\* met through Option and the first element of each Array
RenderCountsFirstElements ==
    /\ pc # "panicked"
    /\ pc = "rendered" =>
          LET k == CountFirstAnonymous(native.val.val) IN
          /\ rendered.val.count = anon_count0 + k
          /\ SynthesizedNames(rendered.val.text) =
                [i \in 1..k |-> SlotName(anon_count0 + i - 1)]

====
